---------------------------- MODULE Spec2Model ----------------------------
(***************************************************************************)
(* Objection2v: the debate-practice round machine of src/src/App.tsx (a    *)
(* React component: state cells, event handlers, one countdown effect and  *)
(* two asynchronous calls) together with the judge endpoints it talks to   *)
(* (src/server.js, src/api/server.js, src/unnamed/part_001, part_002) and  *)
(* the verdict parser of src/unnamed/part_004.                             *)
(*                                                                         *)
(* Texts are TLA+ strings; a character of a text is SubSeq(s, i, i).       *)
(* A JavaScript number is held exactly as a whole number of fifths         *)
(* (Scale), because the only division whose quotient the code keeps is    *)
(* "argument.length / 5": JS 4.6 is 23 here, JS 75 is 375.  The end        *)
(* screen's Math.round(totalScore / 3) is computed on the fifths.          *)
(***************************************************************************)
EXTENDS Integers, Sequences, FiniteSets, Bags, TLC

(***************************************************************************)
(* Numbers                                                                 *)
(***************************************************************************)
Scale == 5

Num(n) == n * Scale

IsInteger(x) == x % Scale = 0

Min(a, b) == IF a <= b THEN a ELSE b

Max(a, b) == IF a >= b THEN a ELSE b

(***************************************************************************)
(* Text primitives (String.prototype.trim, character classes, the /i flag) *)
(***************************************************************************)
CharAt(s, i) == SubSeq(s, i, i)

IsSpace(c) == c \in {" ", "\n", "\t", "\r"}

IsDigit(c) == c \in {"0", "1", "2", "3", "4", "5", "6", "7", "8", "9"}

UpperLetters == << "A", "B", "C", "D", "E", "F", "G", "H", "I", "J", "K", "L", "M",
                   "N", "O", "P", "Q", "R", "S", "T", "U", "V", "W", "X", "Y", "Z" >>

LowerLetters == << "a", "b", "c", "d", "e", "f", "g", "h", "i", "j", "k", "l", "m",
                   "n", "o", "p", "q", "r", "s", "t", "u", "v", "w", "x", "y", "z" >>

RECURSIVE TrimStart(_)
TrimStart(s) ==
    IF Len(s) > 0 /\ IsSpace(CharAt(s, 1)) THEN TrimStart(SubSeq(s, 2, Len(s))) ELSE s

RECURSIVE TrimEnd(_)
TrimEnd(s) ==
    IF Len(s) > 0 /\ IsSpace(CharAt(s, Len(s))) THEN TrimEnd(SubSeq(s, 1, Len(s) - 1)) ELSE s

Trim(s) == TrimEnd(TrimStart(s))

RECURSIVE Repeat(_, _)
Repeat(s, n) ==
    IF n = 0 THEN ""
    ELSE LET half == Repeat(s, n \div 2)
         IN  half \o half \o (IF n % 2 = 1 THEN s ELSE "")

(***************************************************************************)
(* Regular expressions of the judge endpoints.  Every pattern the code     *)
(* uses is a case-insensitive alternation of literals, or the literal      *)
(* "score:" followed by \s* and a run of digits.                           *)
(***************************************************************************)
LowerMap ==
    [c \in {UpperLetters[k] : k \in 1..26} |->
        LowerLetters[CHOOSE k \in 1..26 : UpperLetters[k] = c]]

Lower(c) == IF c \in DOMAIN LowerMap THEN LowerMap[c] ELSE c

\* The literal lit (written in lower case) matches s at position i under /i.
MatchLiteralAt(s, i, lit) ==
    /\ i + Len(lit) - 1 <= Len(s)
    /\ \A k \in 1..Len(lit) : Lower(CharAt(s, i + k - 1)) = CharAt(lit, k)

\* First position at or after i that holds no white space (\s* is greedy).
RECURSIVE SkipSpaces(_, _)
SkipSpaces(s, i) ==
    IF i <= Len(s) /\ IsSpace(CharAt(s, i)) THEN SkipSpaces(s, i + 1) ELSE i

\* Last position of the run of digits that starts at i (\d+ is greedy).
RECURSIVE DigitsEnd(_, _)
DigitsEnd(s, i) ==
    IF i + 1 <= Len(s) /\ IsDigit(CharAt(s, i + 1)) THEN DigitsEnd(s, i + 1) ELSE i

ScoreMarker == "score:"

\* /SCORE:\s*(\d+)/i matches with its first character at position i.
ScoreMatchAt(s, i) ==
    /\ MatchLiteralAt(s, i, ScoreMarker)
    /\ LET j == SkipSpaces(s, i + Len(ScoreMarker))
       IN  j <= Len(s) /\ IsDigit(CharAt(s, j))

\* The same match without the i flag: only the spelling "SCORE:" is a marker.
scoreMatchCaseSensitive(raw) ==
    LET At(i) == /\ i + 5 <= Len(raw)
                 /\ SubSeq(raw, i, i + 5) = "SCORE:"
                 /\ LET j == SkipSpaces(raw, i + 6)
                    IN  j <= Len(raw) /\ IsDigit(CharAt(raw, j))
    IN  IF \E i \in 1..Len(raw) : At(i)
        THEN LET i == CHOOSE i \in 1..Len(raw) : At(i) /\ \A h \in 1..(i - 1) : ~At(h)
                 j == SkipSpaces(raw, i + 6)
             IN  SubSeq(raw, j, DigitsEnd(raw, j))
        ELSE ""

\* raw.match(/SCORE:\s*(\d+)/i): capture group 1 of the leftmost match, or ""
\* for null (the group is never empty when there is a match).
scoreMatch(raw) ==
    IF \E i \in 1..Len(raw) : ScoreMatchAt(raw, i)
    THEN LET i == CHOOSE i \in 1..Len(raw) :
                     ScoreMatchAt(raw, i) /\ \A h \in 1..(i - 1) : ~ScoreMatchAt(raw, h)
             j == SkipSpaces(raw, i + Len(ScoreMarker))
         IN  SubSeq(raw, j, DigitsEnd(raw, j))
    ELSE ""

DigitValue(c) ==
    CASE c = "0" -> 0 [] c = "1" -> 1 [] c = "2" -> 2 [] c = "3" -> 3 [] c = "4" -> 4
      [] c = "5" -> 5 [] c = "6" -> 6 [] c = "7" -> 7 [] c = "8" -> 8 [] c = "9" -> 9

\* parseInt / Number of a non-empty run of decimal digits.
RECURSIVE parseInt(_)
parseInt(digits) ==
    IF Len(digits) = 0 THEN 0
    ELSE 10 * parseInt(SubSeq(digits, 1, Len(digits) - 1))
             + DigitValue(CharAt(digits, Len(digits)))

\* const score = scoreMatch ? parseInt(scoreMatch[1]) : <default>
extractScore(raw, default) ==
    LET m == scoreMatch(raw) IN IF m # "" THEN Num(parseInt(m)) ELSE Num(default)

IsWordChar(c) ==
    \/ IsDigit(c) \/ c = "_"
    \/ \E k \in 1..26 : c = UpperLetters[k] \/ c = LowerLetters[k]

\* /(SCORE:\s*)(\d{1,3})/i: group 2 of the leftmost match, or "" for null.
scoreMatchThreeDigits(raw) ==
    LET m == scoreMatch(raw) IN SubSeq(m, 1, Min(3, Len(m)))

\* /(\b)(\d{1,3})(\/100)/ matches at i: a run of one to three digits that
\* starts at a word boundary and is followed by "/100".
OutOfHundredAt(raw, i) ==
    /\ i <= Len(raw) /\ IsDigit(CharAt(raw, i))
    /\ i = 1 \/ ~IsWordChar(CharAt(raw, i - 1))
    /\ DigitsEnd(raw, i) - i + 1 <= 3
    /\ SubSeq(raw, DigitsEnd(raw, i) + 1, DigitsEnd(raw, i) + 4) = "/100"

outOfHundredMatch(raw) ==
    IF \E i \in 1..Len(raw) : OutOfHundredAt(raw, i)
    THEN LET i == CHOOSE i \in 1..Len(raw) :
                     OutOfHundredAt(raw, i) /\ \A h \in 1..(i - 1) : ~OutOfHundredAt(raw, h)
         IN  SubSeq(raw, i, DigitsEnd(raw, i))
    ELSE ""

\* src/unnamed/part_004, parseVerdict, the score of a string (lines 4, 19-21
\* and 30): { score: score ?? 0 }, with score null when neither pattern matches.
parseVerdictScore(raw) ==
    IF raw = "" THEN 0
    ELSE LET m == IF scoreMatchThreeDigits(raw) # "" THEN scoreMatchThreeDigits(raw)
                  ELSE outOfHundredMatch(raw)
         IN  IF m # "" THEN Num(parseInt(m)) ELSE 0

DecimalDigits == "0123456789"

\* `${score}`: the decimal numeral of a whole number.
RECURSIVE NumberToString(_)
NumberToString(n) ==
    IF n < 10 THEN CharAt(DecimalDigits, n + 1)
    ELSE NumberToString(n \div 10) \o CharAt(DecimalDigits, (n % 10) + 1)

FeedbackMarker == "feedback:"

\* raw.match(/FEEDBACK:\s*(.*)/is): group 1 of the leftmost match, which runs
\* to the end of the text (the s flag lets . match line breaks).
feedbackMatch(raw) ==
    IF \E i \in 1..Len(raw) : MatchLiteralAt(raw, i, FeedbackMarker)
    THEN LET i == CHOOSE i \in 1..Len(raw) :
                     /\ MatchLiteralAt(raw, i, FeedbackMarker)
                     /\ \A h \in 1..(i - 1) : ~MatchLiteralAt(raw, h, FeedbackMarker)
             j == SkipSpaces(raw, i + Len(FeedbackMarker))
         IN  [found |-> TRUE, group |-> SubSeq(raw, j, Len(raw))]
    ELSE [found |-> FALSE, group |-> ""]

\* parseVerdict, the title of a string (lines 4 and 24).
parseVerdictTitle(raw) ==
    IF raw = "" THEN "No verdict"
    ELSE LET m == IF scoreMatchThreeDigits(raw) # "" THEN scoreMatchThreeDigits(raw)
                  ELSE outOfHundredMatch(raw)
         IN  IF m # "" THEN "Score: " \o NumberToString(parseInt(m)) \o "/100"
             ELSE "Judge Feedback"

\* parseVerdict, the message of a string (lines 4 and 27-28).
parseVerdictMessage(raw) ==
    IF raw = "" THEN "No feedback available."
    ELSE IF feedbackMatch(raw).found THEN Trim(feedbackMatch(raw).group) ELSE raw

\* parseVerdict of a string: { score, title, message }.
parseVerdict(raw) ==
    [score |-> parseVerdictScore(raw), title |-> parseVerdictTitle(raw),
     message |-> parseVerdictMessage(raw)]

\* /a|b|c/i.test(s)
RegexTest(alternatives, s) ==
    \E i \in 1..Len(s) : \E k \in 1..Len(alternatives) :
        MatchLiteralAt(s, i, alternatives[k])

\* Length of the alternative the alternation picks at position i (the first one
\* in pattern order that matches), 0 when none matches there.
AlternationAt(alternatives, s, i) ==
    IF \E k \in 1..Len(alternatives) : MatchLiteralAt(s, i, alternatives[k])
    THEN Len(alternatives[CHOOSE k \in 1..Len(alternatives) :
                 /\ MatchLiteralAt(s, i, alternatives[k])
                 /\ \A h \in 1..(k - 1) : ~MatchLiteralAt(s, i, alternatives[h])])
    ELSE 0

\* (s.match(/a|b|c/gi) || []).length: non-overlapping matches, left to right.
RECURSIVE MatchCountFrom(_, _, _)
MatchCountFrom(alternatives, s, i) ==
    IF \E j \in i..Len(s) : AlternationAt(alternatives, s, j) > 0
    THEN LET j == CHOOSE j \in i..Len(s) :
                     /\ AlternationAt(alternatives, s, j) > 0
                     /\ \A h \in i..(j - 1) : AlternationAt(alternatives, s, h) = 0
         IN  1 + MatchCountFrom(alternatives, s, j + AlternationAt(alternatives, s, j))
    ELSE 0

MatchCount(alternatives, s) == MatchCountFrom(alternatives, s, 1)

(***************************************************************************)
(* The external capability, as one request sees it: whether the server     *)
(* holds a credential (genAI is non-null), and what generateContent does   *)
(* on the first call and on a retry: it rejects, or response.text()        *)
(* returns a text (possibly empty or blank).                               *)
(***************************************************************************)
Throws == [throws |-> TRUE, text |-> ""]

Returns(t) == [throws |-> FALSE, text |-> t]

Capability(c, f, r) == [configured |-> c, first |-> f, retry |-> r]

\* What a gateway function hands its caller: a text, or a thrown Error.
Generated(t) == [ok |-> TRUE, text |-> t, error |-> ""]

Failure(e) == [ok |-> FALSE, text |-> "", error |-> e]

\* src/unnamed/part_002: extractText, then safeGenerate.  The process exits
\* at start-up without a credential, so genAI is never null here.
extractText(outcome) == LET t == Trim(outcome.text) IN IF t # "" THEN t ELSE ""

safeGenerate(cap) ==
    IF cap.first.throws THEN Failure("TransportError")
    ELSE LET text == extractText(cap.first)
         IN  IF text = "" THEN Failure("EMPTY_OR_BLOCKED_RESPONSE") ELSE Generated(text)

\* src/unnamed/part_001: safeGenerate with the credential check.
safeGenerateChecked(cap) ==
    IF ~cap.configured THEN Failure("GEMINI_NOT_CONFIGURED")
    ELSE IF cap.first.throws THEN Failure("TransportError")
    ELSE LET text == Trim(cap.first.text)
         IN  IF text = "" THEN Failure("EMPTY_OR_BLOCKED_RESPONSE") ELSE Generated(text)

\* src/api/server.js: generate.  The emptiness test precedes the trim.
generate(cap) ==
    IF ~cap.configured THEN Failure("NO_API_KEY")
    ELSE IF cap.first.throws THEN Failure("TransportError")
    ELSE IF cap.first.text = "" THEN Failure("EMPTY_RESPONSE")
    ELSE Generated(Trim(cap.first.text))

\* s.replace(/a|b/gi, by): every match, left to right, gives way to `by`.
RECURSIVE ReplaceFrom(_, _, _, _)
ReplaceFrom(alternatives, s, i, by) ==
    IF \E j \in i..Len(s) : AlternationAt(alternatives, s, j) > 0
    THEN LET j == CHOOSE j \in i..Len(s) :
                     /\ AlternationAt(alternatives, s, j) > 0
                     /\ \A h \in i..(j - 1) : AlternationAt(alternatives, s, h) = 0
         IN  SubSeq(s, i, j - 1) \o by
                 \o ReplaceFrom(alternatives, s, j + AlternationAt(alternatives, s, j), by)
    ELSE SubSeq(s, i, Len(s))

ReplaceAll(alternatives, s, by) == ReplaceFrom(alternatives, s, 1, by)

\* /Judge Gemini|You are Judge Gemini/gi
RolePlayPattern == << "judge gemini", "you are judge gemini" >>

\* /Evaluate with score out of 100, verdict, and constructive feedback/gi
StrictFormatPattern ==
    << "evaluate with score out of 100, verdict, and constructive feedback" >>

\* src/server.js, generateWithRetry: the softened prompt of the retry.
softened(p) ==
    ReplaceAll(StrictFormatPattern,
               ReplaceAll(RolePlayPattern, p, "You are an experienced debate coach"),
               "Provide a helpful approximate score and practical feedback for the student.")

\* src/server.js: readResponseText, then generateWithRetry with retries: 1.
\* `prompts` lists the prompts handed to model.generateContent, in order.
readResponseText(outcome) == outcome.text

\* generateWithRetry with the retry sent for a first call that threw as well.
generateWithRetryOnThrow(p, cap) ==
    LET text == IF cap.first.throws THEN "" ELSE readResponseText(cap.first)
    IN  IF text # "" /\ Trim(text) # ""
        THEN Generated(Trim(text)) @@ [prompts |-> << p >>]
        ELSE IF cap.retry.throws
        THEN Failure("TransportError") @@ [prompts |-> << p, softened(p) >>]
        ELSE LET retryText == readResponseText(cap.retry)
             IN  Generated(IF retryText # "" THEN Trim(retryText) ELSE "")
                     @@ [prompts |-> << p, softened(p) >>]

\* generateWithRetry with the retry sent under the original prompt.
generateWithRetryUnsoftened(p, cap) ==
    IF cap.first.throws THEN Failure("TransportError") @@ [prompts |-> << p >>]
    ELSE LET text == readResponseText(cap.first)
         IN  IF text # "" /\ Trim(text) # ""
             THEN Generated(Trim(text)) @@ [prompts |-> << p >>]
             ELSE IF cap.retry.throws
             THEN Failure("TransportError") @@ [prompts |-> << p, p >>]
             ELSE LET retryText == readResponseText(cap.retry)
                  IN  Generated(IF retryText # "" THEN Trim(retryText) ELSE "")
                          @@ [prompts |-> << p, p >>]

generateWithRetry(p, cap) ==
    IF cap.first.throws THEN Failure("TransportError") @@ [prompts |-> << p >>]
    ELSE LET text == readResponseText(cap.first)
         IN  IF text # "" /\ Trim(text) # ""
             THEN Generated(Trim(text)) @@ [prompts |-> << p >>]
             ELSE IF cap.retry.throws
             THEN Failure("TransportError") @@ [prompts |-> << p, softened(p) >>]
             ELSE LET retryText == readResponseText(cap.retry)
                  IN  IF retryText # "" /\ Trim(retryText) # ""
                      THEN Generated(Trim(retryText)) @@ [prompts |-> << p, softened(p) >>]
                      ELSE Generated("") @@ [prompts |-> << p, softened(p) >>]

(***************************************************************************)
(* HTTP: the body of POST /api/judge-argument and what the handler sends.  *)
(* A field that is absent from a JSON object is told apart from "" by its  *)
(* has-flag.  NoResponse is the request left without an answer.            *)
(***************************************************************************)
JudgeRequest(hp, p, ha, a) ==
    [hasPrompt |-> hp, prompt |-> p, hasArgument |-> ha, argument |-> a]

\* !prompt || !argument
MissingInput(body) ==
    \/ ~body.hasPrompt \/ body.prompt = ""
    \/ ~body.hasArgument \/ body.argument = ""

NoResponse ==
    [answered |-> FALSE, status |-> 0, hasVerdict |-> FALSE, verdict |-> "",
     hasScore |-> FALSE, score |-> 0, hasError |-> FALSE, hasFallback |-> FALSE,
     fallback |-> [verdict |-> "", score |-> 0],
     usingFallback |-> FALSE, rejected |-> FALSE]

\* The async handler threw outside any try block: its promise rejects.
HandlerRejects == [NoResponse EXCEPT !.rejected = TRUE]

\* What the framework does with a handler's result.  The repository pins no
\* Express version: Express 4 ignores the rejected promise and the request
\* stays unanswered, Express 5 passes it to the default error handler,
\* which answers 500 without a JSON body.
Delivered(result) ==
    IF result.rejected THEN { NoResponse, [NoResponse EXCEPT !.answered = TRUE, !.status = 500] }
    ELSE { result }

\* res.status(n).json({ error: ... })
ErrorResponse(n) ==
    [NoResponse EXCEPT !.answered = TRUE, !.status = n, !.hasError = TRUE]

\* res.status(500).json({ error: ..., fallback: { verdict, score } })
NestedFallbackResponse(pair) ==
    [ErrorResponse(500) EXCEPT !.hasFallback = TRUE, !.fallback = pair]

\* The fallback pair src/server.js nests in its 500 when the model's text is
\* empty, and the one its catch block nests.
EmptyReplyFallback ==
    [verdict |-> "SCORE: 75\nVERDICT: Decent argument with room to expand evidence and "
                 \o "counterclaims.\nFEEDBACK: Add specific examples and address "
                 \o "counterarguments directly.",
     score |-> Num(75)]

CaughtErrorFallback ==
    [verdict |-> "SCORE: 75\nVERDICT: Solid argument!\nFEEDBACK: Provide more examples "
                 \o "next time.",
     score |-> Num(75)]

\* res.status(200).json({ verdict, score [, usingFallback: true] })
VerdictResponse(v, sc, fb) ==
    [NoResponse EXCEPT !.answered = TRUE, !.status = 200, !.hasVerdict = TRUE,
                       !.verdict = v, !.hasScore = TRUE, !.score = sc,
                       !.usingFallback = fb]

(***************************************************************************)
(* The heuristic fallback score of src/unnamed/part_002 (the body of the   *)
(* judge handler's catch block), as a function of the text it names        *)
(* `argument`.                                                             *)
(***************************************************************************)
EvidencePattern ==
    << "example", "evidence", "study", "research", "data", "statistic",
       "according to", "research shows" >>

EmpathyPattern ==
    << "perspective", "impact", "affect", "feel", "experience", "harm", "benefit",
       "suffer", "struggle", "vulnerable" >>

CounterargumentPattern ==
    << "however", "although", "while", "some may argue", "critics", "opponents",
       "on the other hand" >>

StructurePattern ==
    << "first", "second", "finally", "furthermore", "additionally", "in conclusion",
       "therefore" >>

EvidenceCountPattern == << "example", "evidence", "study" >>

ImpactCountPattern == << "impact", "affect", "harm", "benefit" >>

hasEvidence(arg) == RegexTest(EvidencePattern, arg)

hasEmpathy(arg) == RegexTest(EmpathyPattern, arg)

hasCounterargument(arg) == RegexTest(CounterargumentPattern, arg)

hasStructure(arg) == RegexTest(StructurePattern, arg)

\* The reasoning component with both comparisons written as >=.
reasoningScoreInclusive(arg) ==
    10 + (IF Len(arg) >= 300 THEN 8 ELSE 0) + (IF Len(arg) >= 500 THEN 7 ELSE 0)

reasoningScore(arg) ==
    10 + (IF Len(arg) > 300 THEN 8 ELSE 0) + (IF Len(arg) > 500 THEN 7 ELSE 0)

\* The evidence component with its second bonus written as 10 instead of 5.
evidenceScoreDoubleBonus(arg) ==
    10 + (IF hasEvidence(arg) THEN 10 ELSE 0)
       + (IF MatchCount(EvidenceCountPattern, arg) >= 2 THEN 10 ELSE 0)

evidenceScore(arg) ==
    10 + (IF hasEvidence(arg) THEN 10 ELSE 0)
       + (IF MatchCount(EvidenceCountPattern, arg) >= 2 THEN 5 ELSE 0)

empathyScore(arg) ==
    10 + (IF hasEmpathy(arg) THEN 10 ELSE 0)
       + (IF MatchCount(ImpactCountPattern, arg) >= 2 THEN 5 ELSE 0)

rhetoricsScore(arg) ==
    10 + (IF hasStructure(arg) THEN 8 ELSE 0)
       + (IF hasCounterargument(arg) THEN 7 ELSE 0)

fallbackScore(arg) ==
    reasoningScore(arg) + evidenceScore(arg)
        + empathyScore(arg) + rhetoricsScore(arg)

\* The text of the detailed fallback verdict after its score numeral: the
\* template literal of the catch block from "\n\nVERDICT:" on.  The one
\* character outside ASCII, the dash in "element-who", is written as a hyphen.
detailedFallbackBody(arg) ==
    "\n\nVERDICT: Your argument demonstrates "
    \o (IF Len(arg) > 400
         THEN "substantial"
         ELSE "initial")
    \o " understanding of the issue and presents a "
    \o (IF hasEvidence(arg)
         THEN "supported"
         ELSE "basic")
    \o " position. "
    \o (IF hasEmpathy(arg)
         THEN "You show awareness of human impact."
         ELSE "Consider emphasizing the human element more.")
    \o " "
    \o (IF hasStructure(arg)
         THEN "Your organization helps the argument flow logically."
         ELSE "Stronger organization would improve clarity.")
    \o "\n\nDETAILED ANALYSIS:\n\nLegal/Ethical Reasoning ("
    \o NumberToString(reasoningScore(arg))
    \o "/25): "
    \o (IF Len(arg) > 300
         THEN "You develop your reasoning with adequate depth and show understandin"
             \o "g of the core principles involved."
         ELSE "Your reasoning shows promise but would benefit from deeper explorati"
             \o "on of ethical or legal frameworks. Consider how established principl"
             \o "es apply to this case.")
    \o "\n\nEvidence & Support ("
    \o NumberToString(evidenceScore(arg))
    \o "/25): "
    \o (IF hasEvidence(arg)
         THEN "You include supporting evidence which strengthens your claims. To im"
             \o "prove further, cite specific sources, statistics, or expert testimon"
             \o "y that directly supports each major point."
         ELSE "Your argument would be significantly stronger with concrete evidence"
             \o ", examples, or data. General statements need specific support to be "
             \o "persuasive.")
    \o "\n\nEmpathy & Impact ("
    \o NumberToString(empathyScore(arg))
    \o "/25): "
    \o (IF hasEmpathy(arg)
         THEN "You demonstrate awareness of how this issue affects real people. Con"
             \o "sider exploring multiple perspectives to show even deeper understand"
             \o "ing of the stakes involved."
         ELSE "Focus more on the human element-who is affected by this issue and ho"
             \o "w? Showing empathy and understanding of real-world impact makes argu"
             \o "ments more compelling.")
    \o "\n\nRhetoric & Persuasion ("
    \o NumberToString(rhetoricsScore(arg))
    \o "/25): "
    \o (IF hasStructure(arg)
         THEN "Your argument has logical structure which helps your points land eff"
             \o "ectively."
         ELSE "Organize your thoughts more clearly with transitions and a logical f"
             \o "low.")
    \o " "
    \o (IF hasCounterargument(arg)
         THEN "Addressing counterarguments shows sophistication."
         ELSE "Anticipating and addressing opposing views would strengthen your per"
             \o "suasiveness.")
    \o "\n\nSPECIFIC FEEDBACK: "
    \o (IF ~hasEvidence(arg)
         THEN "Start by adding at least 2-3 concrete examples or pieces of evidence"
             \o ". "
         ELSE "")
    \o (IF ~hasEmpathy(arg)
         THEN "Connect your points to real human experiences and consequences. "
         ELSE "")
    \o (IF ~hasCounterargument(arg)
         THEN "Address potential objections to show you understand the complexity o"
             \o "f the issue. "
         ELSE "")
    \o (IF Len(arg) < 200
         THEN "Expand your argument with more depth and detail."
         ELSE "Continue developing your analytical skills and evidence integration.")
    \o "\n\nSTRENGTHS:\n"
    \o (IF Len(arg) > 300
         THEN "- Comprehensive treatment of the topic"
         ELSE "- Clear communication of your main point")
    \o "\n"
    \o (IF hasEvidence(arg)
         THEN "- Inclusion of supporting evidence or examples"
         ELSE "- Demonstrates basic understanding of the issue")
    \o "\n"
    \o (IF hasEmpathy(arg)
         THEN "- Awareness of human impact and consequences"
         ELSE "- Engagement with the ethical dimensions")
    \o "\n\nAREAS FOR GROWTH:\n"
    \o (IF ~hasEvidence(arg)
         THEN "- Add more concrete evidence, data, or specific examples"
         ELSE "- Cite more authoritative sources and expert testimony")
    \o "\n"
    \o (IF ~hasStructure(arg)
         THEN "- Use clearer organizational structure and transitions"
         ELSE "- Develop more nuanced sub-arguments")
    \o "\n"
    \o (IF ~hasCounterargument(arg)
         THEN "- Address and refute potential counterarguments"
         ELSE "- Engage with more complex aspects of the issue")

\* The detailed fallback verdict without the "SCORE: " label in front of the
\* numeral.
detailedFallbackUnlabelled(arg) ==
    NumberToString(fallbackScore(arg)) \o detailedFallbackBody(arg)

\* const detailedFallback = `SCORE: ${fallbackScore} ...`
detailedFallback(arg) ==
    "SCORE: " \o NumberToString(fallbackScore(arg)) \o detailedFallbackBody(arg)

(***************************************************************************)
(* POST /api/judge-argument, one operator per version of the server kept   *)
(* in the repository.                                                      *)
(***************************************************************************)
\* src/unnamed/part_002, lines 121-264.  `prompt` and `argument` are consts of
\* the try block; the catch block's first statement, argument.length, names
\* an identifier that is not in scope there: it throws a ReferenceError and
\* the async handler's promise rejects.
judgeArgumentDetailed(body, cap) ==
    IF MissingInput(body) THEN ErrorResponse(400)
    ELSE LET verdictRaw == safeGenerate(cap)
         IN  IF verdictRaw.ok
             THEN VerdictResponse(verdictRaw.text, extractScore(verdictRaw.text, 75), FALSE)
             ELSE HandlerRejects

\* src/unnamed/part_001, lines 114-196 (and src/api/server.js, lines 328-364):
\* the destructuring precedes the try block, so the catch block sees `argument`.
judgeArgumentLengthFallback(body, cap) ==
    IF MissingInput(body) THEN ErrorResponse(400)
    ELSE LET verdictRaw == safeGenerateChecked(cap)
         IN  IF verdictRaw.ok
             THEN VerdictResponse(verdictRaw.text, extractScore(verdictRaw.text, 75), FALSE)
             ELSE VerdictResponse("Fallback evaluation used due to AI error.",
                                  Min(Num(100), Max(Num(60), Len(body.argument))), TRUE)

\* src/server.js, lines 137-186.
judgeInstruction(p, a) ==
    Trim("\nYou are an experienced debate coach. Read the CASE and the ROOKIE "
         \o "LAWYER'S DEFENSE below.\nCASE: " \o p
         \o "\n\nROOKIE LAWYER'S DEFENSE:\n" \o a
         \o "\n\nProvide an evaluation in this EXACT format (no extra text):\n"
         \o "SCORE: [number from 0-100]\n"
         \o "VERDICT: [In 2-3 sentences, explain whether the defense would likely "
         \o "succeed]\n"
         \o "FEEDBACK: [In 2-3 sentences, concrete, constructive advice to improve "
         \o "the argument]\n\nKeep the output concise and only in that format.\n")

judgeArgumentWithRetry(body, cap) ==
    IF MissingInput(body) THEN ErrorResponse(400)
    ELSE LET result == generateWithRetry(judgeInstruction(body.prompt, body.argument), cap)
         IN  IF ~result.ok THEN NestedFallbackResponse(CaughtErrorFallback)
             ELSE IF result.text = "" THEN NestedFallbackResponse(EmptyReplyFallback)
             ELSE VerdictResponse(result.text, extractScore(result.text, 70), FALSE)

\* src/api/server.js, lines 148-189 (first version): no input validation; the
\* catch block reads req.body.argument?.length || 0.
judgeArgumentFirst(body, cap) ==
    LET aiVerdict == generate(cap)
    IN  IF aiVerdict.ok
        THEN VerdictResponse(aiVerdict.text, extractScore(aiVerdict.text, 75), FALSE)
        ELSE VerdictResponse(
                 "AI judging unavailable. Fallback scoring used based on argument length.",
                 Min(Num(100), IF body.hasArgument THEN Len(body.argument) ELSE 0), FALSE)

\* src/api/server.js, lines 489-529 (third version): no input validation; the
\* catch block reads `argument`, a const of the try block: ReferenceError.
judgeArgumentThird(body, cap) ==
    LET aiVerdict == generate(cap)
    IN  IF aiVerdict.ok
        THEN VerdictResponse(aiVerdict.text, extractScore(aiVerdict.text, 75), FALSE)
        ELSE HandlerRejects

ServerVersions == { "part_002", "part_001", "server.js", "api/server.js#1", "api/server.js#3" }

judgeArgumentHandler(v, body, cap) ==
    CASE v = "part_002" -> judgeArgumentDetailed(body, cap)
      [] v = "part_001" -> judgeArgumentLengthFallback(body, cap)
      [] v = "server.js" -> judgeArgumentWithRetry(body, cap)
      [] v = "api/server.js#1" -> judgeArgumentFirst(body, cap)
      [] v = "api/server.js#3" -> judgeArgumentThird(body, cap)

\* The prompts the handler of src/server.js hands to generateContent.
judgeArgumentWithRetryPrompts(body, cap) ==
    IF MissingInput(body) THEN << >>
    ELSE generateWithRetry(judgeInstruction(body.prompt, body.argument), cap).prompts

\* What the gateway function of a version handed the judge handler: nothing
\* when the handler answered before calling it, else a text or an Error.
NoGateway == [called |-> FALSE, ok |-> FALSE, text |-> "", error |-> ""]

gatewayResult(v, body, cap) ==
    LET Called(r) == [called |-> TRUE, ok |-> r.ok, text |-> r.text, error |-> r.error]
    IN  CASE v = "part_002" ->
                 IF MissingInput(body) THEN NoGateway ELSE Called(safeGenerate(cap))
          [] v = "part_001" ->
                 IF MissingInput(body) THEN NoGateway ELSE Called(safeGenerateChecked(cap))
          [] v = "server.js" ->
                 IF MissingInput(body) THEN NoGateway
                 ELSE Called(generateWithRetry(judgeInstruction(body.prompt, body.argument),
                                               cap))
          [] v \in { "api/server.js#1", "api/server.js#3" } -> Called(generate(cap))

\* How often the handler of a version calls generateContent for one request:
\* once past the input check (part_002), once past the input check and the
\* credential check (part_001), once past the credential check (api/server.js,
\* which checks no input), once or twice in generateWithRetry (server.js).
generateContentCalls(v, body, cap) ==
    CASE v = "part_002" -> IF MissingInput(body) THEN 0 ELSE 1
      [] v = "part_001" -> IF MissingInput(body) \/ ~cap.configured THEN 0 ELSE 1
      [] v = "server.js" -> Len(judgeArgumentWithRetryPrompts(body, cap))
      [] v \in { "api/server.js#1", "api/server.js#3" } -> IF cap.configured THEN 1 ELSE 0

(***************************************************************************)
(* The client: src/src/App.tsx, lines 1-614.                               *)
(***************************************************************************)
FALLBACK_CASES ==
    [rapid |->
        << "Your client, a gig worker, was fired by an algorithm without explanation. Defend their right to transparency.",
           "The scenario: A school district uses facial recognition that misidentifies minority students. Argue for policy change.",
           "Your client faces housing discrimination from AI screening tools. Build a case for fair housing protections." >>,
     normal |->
        << "Your client, Maya Chen, is a software engineer who was denied a promotion after an AI hiring tool flagged her resume. The algorithm was trained on historical data that favored male candidates. She believes the system perpetuates gender bias in tech leadership. Defend her right to fair evaluation and argue for algorithmic transparency in hiring.",
           "The scenario involves a rural school district in Appalachia that lacks high-speed internet access, preventing students from participating in online learning opportunities. Meanwhile, neighboring affluent districts offer advanced coding courses and tech certifications. Advocate for equitable technology infrastructure as a civil right.",
           "Your client, James Rodriguez, is a freelance content creator whose posts about immigration rights were shadowbanned by a major social media platform. The algorithm flagged his content as 'controversial' without human review. Defend his free speech rights and argue for platform accountability in content moderation." >>]

RapidDuration == 120

NormalDuration == 240

InitialTimeLeft == 240

TotalRounds == 3

Rounds == 1..TotalRounds

\* const timerDuration = lessonType === 'rapid' ? 120 : 240
timerDuration(mode) == IF mode = "rapid" THEN RapidDuration ELSE NormalDuration

NoArgumentPlaceholder == "[NO ARGUMENT SUBMITTED]"

BasicScoringVerdict ==
    "AI judging unavailable.\n\nYour argument was evaluated using a basic scoring system."

NoFeedbackVerdict == "No feedback returned."

\* The submitted argument with the field's text dropped: always the placeholder.
submittedArgumentDropsText(text) == NoArgumentPlaceholder

\* const submittedArgument = argument && argument.trim() ? argument : '[NO ARGUMENT SUBMITTED]'
submittedArgument(text) ==
    IF text # "" /\ Trim(text) # "" THEN text ELSE NoArgumentPlaceholder

\* const basicScore = Math.min(100, submittedArgument.length / 5)
basicScore(submitted) == Min(Num(100), Len(submitted))

(***************************************************************************)
(* Bounds of the model and the inputs it draws.                            *)
(***************************************************************************)
\* Restarts (New Trial) explored in one run.
MaxRestarts == 1

\* Judge calls that may be outstanding at once.
MaxJudgeCalls == 2

\* While the countdown runs, the user and the network act only within this
\* many seconds of its start (120 or 240) or of its end (0); in between only
\* the timer ticks.
EventWindow == 0

\* The countdown is left to run out only in the first RunOutRounds rounds of the
\* first session; later the user submits within the event window.
RunOutRounds == 1

\* Invocations of generateAIPrompt explored in one run.
MaxGenerateCalls == 1

\* Invocations of generateAIPrompt explored in a session played without the
\* countdown and without New Trial.
MaxSessionGenerations == 2

\* What the user types into the scenario field and into the argument field.
CustomTexts == { "", "Defend the tenant." }

ArgumentTexts == { "", "I object." }

\* What POST /api/generate-prompt gives the client: a 2xx body with a prompt
\* (possibly blank), a 2xx body without one, or a failure (non-2xx, network).
GenerateOutcomes ==
    { [ok |-> TRUE, hasPrompt |-> TRUE, prompt |-> " Your client was denied a loan. "],
      [ok |-> TRUE, hasPrompt |-> TRUE, prompt |-> "  "],
      [ok |-> TRUE, hasPrompt |-> FALSE, prompt |-> ""],
      [ok |-> FALSE, hasPrompt |-> FALSE, prompt |-> ""] }

\* What the capability does for a judge request of the client.
JudgeOutcomes ==
    { Returns("SCORE: 150\nVERDICT: Sustained."), Returns(""), Throws,
      Returns("SCORE: 80"), Returns("SCORE: 60"), Returns("SCORE: 100"), Returns("  ") }

JudgeCapabilities ==
    { Capability(TRUE, f, r) : f \in JudgeOutcomes, r \in JudgeOutcomes }

\* The versions of the server the client runs against.
DeployedVersions == { "part_002", "server.js", "api/server.js#1" }

\* fetch rejected: the request never reached a server, or the connection broke.
NetworkFailure == [NoResponse EXCEPT !.hasError = TRUE]

(***************************************************************************)
(* State.  The React state cells of App keep their names.  genCalls and    *)
(* judgeCalls are the invocations of generateAIPrompt and of               *)
(* handleSubmitArgument suspended at their await, each with the values its *)
(* closure captured.  session and submits are history variables: the       *)
(* number of restarts so far, how many times handleSubmitArgument ran for  *)
(* each round of the current session, and how many times                   *)
(* generateAIPrompt ran in all.  memoizedSubmit holds the argument and the  *)
(* prompt that the handleSubmitArgument function of the latest render      *)
(* closes over: useCallback keeps the function of an earlier render until  *)
(* one of its dependencies changes.                                        *)
(***************************************************************************)
VARIABLES started, lessonType, gameState, currentRound, prompt, customPrompt,
          argument, timeLeft, isGenerating, verdict, scores, totalScore,
          genCalls, judgeCalls, session, submits, generated, memoizedSubmit

\* One request to POST /api/judge-argument, for the specification of the
\* server alone: the text the model's reply is built from, the capability
\* that serves it, the version of the handler that ran and what it sent;
\* the heuristic grade of the request's argument and the client-side parse
\* of the reply text.  modelCalls counts the calls of generateContent made
\* for the request, sentPrompts lists the prompts generateWithRetry sent and
\* gateway is what the gateway function handed the handler.
VARIABLES version, request, sample, capability, response, grade, parsed,
          modelCalls, sentPrompts, gateway

clientVars ==
    << started, lessonType, gameState, currentRound, prompt, customPrompt,
       argument, timeLeft, isGenerating, verdict, scores, totalScore,
       genCalls, judgeCalls, session, submits, generated, memoizedSubmit >>

endpointVars ==
    << version, request, sample, capability, response, grade, parsed, modelCalls,
       sentPrompts, gateway >>

vars == << clientVars, endpointVars >>

ClientInit ==
    /\ started = FALSE
    /\ lessonType = "normal"
    /\ gameState = "input"
    /\ currentRound = 1
    /\ prompt = ""
    /\ customPrompt = ""
    /\ argument = ""
    /\ timeLeft = InitialTimeLeft
    /\ isGenerating = FALSE
    /\ verdict = ""
    /\ scores = << >>
    /\ totalScore = 0
    /\ genCalls = EmptyBag
    /\ judgeCalls = EmptyBag
    /\ session = 0
    /\ submits = [r \in Rounds |-> 0]
    /\ generated = 0
    /\ memoizedSubmit = [argument |-> "", prompt |-> ""]

NoSample == [pre |-> "", marker |-> "", gap |-> "", digits |-> "", suffix |-> ""]

NoGrade ==
    [done |-> FALSE, reasoning |-> 0, evidence |-> 0, empathy |-> 0, rhetoric |-> 0,
     score |-> 0, verdict |-> ""]

NoParse == [done |-> FALSE, score |-> 0, title |-> "", message |-> ""]

EndpointIdle ==
    /\ version = "none"
    /\ request = JudgeRequest(FALSE, "", FALSE, "")
    /\ sample = NoSample
    /\ capability = Capability(TRUE, Throws, Throws)
    /\ response = NoResponse
    /\ grade = NoGrade
    /\ parsed = NoParse
    /\ modelCalls = 0
    /\ sentPrompts = << >>
    /\ gateway = NoGateway

Init == ClientInit /\ EndpointIdle

(***************************************************************************)
(* Event handlers of App.  A button or a field exists only while the       *)
(* screen that holds it is rendered: the start screen while ~started, the  *)
(* screen of gameState while started.                                      *)
(***************************************************************************)
\* startLesson1 / startLesson2, with the 800 ms timeout they arm.
startLesson(mode) ==
    /\ ~started
    /\ lessonType' = mode
    /\ started' = TRUE
    /\ UNCHANGED << gameState, currentRound, prompt, customPrompt, argument, timeLeft,
                    isGenerating, verdict, scores, totalScore, genCalls, judgeCalls,
                    session, submits, generated >>

\* onChange of the scenario field.
setCustomPrompt(text) ==
    /\ started /\ gameState = "input"
    /\ customPrompt' = text
    /\ UNCHANGED << started, lessonType, gameState, currentRound, prompt, argument,
                    timeLeft, isGenerating, verdict, scores, totalScore, genCalls,
                    judgeCalls, session, submits, generated >>

\* Use My Case, without the check of the scenario field.
useCustomPromptUnchecked ==
    /\ started /\ gameState = "input"
    /\ prompt' = customPrompt
    /\ gameState' = "playing"
    /\ timeLeft' = timerDuration(lessonType)
    /\ argument' = ""
    /\ UNCHANGED << started, lessonType, currentRound, customPrompt, isGenerating,
                    verdict, scores, totalScore, genCalls, judgeCalls, session, submits, generated >>

\* Use My Case.
useCustomPrompt ==
    /\ started /\ gameState = "input"
    /\ IF Trim(customPrompt) = ""
       THEN UNCHANGED << prompt, gameState, timeLeft, argument >>
       ELSE /\ prompt' = customPrompt
            /\ gameState' = "playing"
            /\ timeLeft' = timerDuration(lessonType)
            /\ argument' = ""
    /\ UNCHANGED << started, lessonType, currentRound, customPrompt, isGenerating,
                    verdict, scores, totalScore, genCalls, judgeCalls, session, submits, generated >>

\* Generate AI Case with the button left enabled while isGenerating.
generateAIPromptUpToNeverDisabled(limit) ==
    /\ started /\ gameState = "input"
    /\ generated < limit
    /\ generated' = generated + 1
    /\ isGenerating' = TRUE
    /\ customPrompt' = ""
    /\ genCalls' = genCalls (+) SetToBag({[round |-> currentRound,
                                           lessonType |-> lessonType,
                                           session |-> session]})
    /\ UNCHANGED << started, lessonType, gameState, currentRound, prompt, argument,
                    timeLeft, verdict, scores, totalScore, judgeCalls, session, submits >>

\* Generate AI Case (disabled while isGenerating), up to the await; at most
\* `limit` invocations are explored.
generateAIPromptUpTo(limit) ==
    /\ started /\ gameState = "input"
    /\ ~isGenerating
    /\ generated < limit
    /\ generated' = generated + 1
    /\ isGenerating' = TRUE
    /\ customPrompt' = ""
    /\ genCalls' = genCalls (+) SetToBag({[round |-> currentRound,
                                           lessonType |-> lessonType,
                                           session |-> session]})
    /\ UNCHANGED << started, lessonType, gameState, currentRound, prompt, argument,
                    timeLeft, verdict, scores, totalScore, judgeCalls, session, submits >>

generateAIPrompt == generateAIPromptUpTo(MaxGenerateCalls)

\* generateAIPrompt from the await on: the try block's tail, or the catch
\* block, then the finally block.  currentRound and lessonType are the values
\* of the render in which the button was clicked.
generateAIPromptSettled(call, outcome) ==
    /\ BagIn(call, genCalls)
    /\ genCalls' = genCalls (-) SetToBag({call})
    /\ LET generatedPrompt == IF outcome.hasPrompt THEN Trim(outcome.prompt) ELSE ""
       IN  IF outcome.ok /\ generatedPrompt # ""
           THEN prompt' = generatedPrompt
           ELSE prompt' = FALLBACK_CASES[call.lessonType][call.round]
    /\ gameState' = "playing"
    /\ timeLeft' = timerDuration(call.lessonType)
    /\ argument' = ""
    /\ isGenerating' = FALSE
    /\ UNCHANGED << started, lessonType, currentRound, customPrompt, verdict, scores,
                    totalScore, judgeCalls, session, submits, generated >>

\* onChange of the argument field.
setArgument(text) ==
    /\ started /\ gameState = "playing"
    /\ argument' = text
    /\ UNCHANGED << started, lessonType, gameState, currentRound, prompt, customPrompt,
                    timeLeft, isGenerating, verdict, scores, totalScore, genCalls,
                    judgeCalls, session, submits, generated >>

\* useCallback(fn, [prompt]): the dependency list without the argument.
useCallbackOnPromptOnly(memo, text, scenario) ==
    IF memo.prompt # scenario
    THEN [argument |-> text, prompt |-> scenario]
    ELSE memo

\* useCallback(fn, [argument, prompt]) of a render whose cells hold text and
\* scenario: the function of the earlier render is kept while both
\* dependencies are what it closed over, a new one closes over the cells of
\* this render otherwise.
useCallback(memo, text, scenario) ==
    IF memo.argument # text \/ memo.prompt # scenario
    THEN [argument |-> text, prompt |-> scenario]
    ELSE memo

\* The render that follows an event.
Render == memoizedSubmit' = useCallback(memoizedSubmit, argument', prompt')

\* handleSubmitArgument up to the await: the request carries the prompt and
\* the argument of the render that created the callback.
handleSubmitArgument ==
    /\ BagCardinality(judgeCalls) < MaxJudgeCalls
    /\ gameState' = "judging"
    /\ judgeCalls' = judgeCalls (+) SetToBag({[prompt |-> memoizedSubmit.prompt,
                                               argument |-> submittedArgument(memoizedSubmit.argument),
                                               round |-> currentRound,
                                               session |-> session]})
    /\ submits' = [submits EXCEPT ![currentRound] = @ + 1]
    /\ UNCHANGED << started, lessonType, currentRound, prompt, customPrompt, argument,
                    timeLeft, isGenerating, verdict, scores, totalScore, genCalls,
                    session, generated >>

\* Submit Defense (disabled while the argument is blank).
submitDefense ==
    /\ started /\ gameState = "playing"
    /\ Trim(argument) # ""
    /\ handleSubmitArgument

\* The clock values within the event window of the countdown's start.
NearStart(t) ==
    \/ t >= RapidDuration - EventWindow /\ t <= RapidDuration
    \/ t >= NormalDuration - EventWindow

\* The countdown effect, first branch: the 1 s timeout fires.
tick ==
    /\ gameState = "playing" /\ timeLeft > 0
    /\ (session = 0 /\ currentRound <= RunOutRounds) \/ NearStart(timeLeft - 1)
    /\ timeLeft' = timeLeft - 1
    /\ UNCHANGED << started, lessonType, gameState, currentRound, prompt, customPrompt,
                    argument, isGenerating, verdict, scores, totalScore, genCalls,
                    judgeCalls, session, submits, generated >>

\* The countdown effect, second branch.
timeExpired ==
    /\ gameState = "playing" /\ timeLeft = 0
    /\ handleSubmitArgument

\* post(): resolves with the body of a 2xx response, throws on any other
\* response and on a network failure, stays pending while nothing arrives.
PostResolves(reply) == reply.answered /\ reply.status \in 200..299

PostThrows(reply) == reply = NetworkFailure \/ (reply.answered /\ reply.status \notin 200..299)

\* handleSubmitArgument from the await on, with a catch block that records
\* the basic score but leaves out setGameState('results').
handleSubmitArgumentSettledCatchStays(call, reply) ==
    /\ BagIn(call, judgeCalls)
    /\ PostResolves(reply) \/ PostThrows(reply)
    /\ judgeCalls' = judgeCalls (-) SetToBag({call})
    /\ LET score == IF PostResolves(reply)
                    THEN (IF reply.hasScore THEN reply.score ELSE Num(75))
                    ELSE basicScore(call.argument)
           verdictText == IF PostResolves(reply)
                          THEN (IF reply.hasVerdict THEN reply.verdict ELSE NoFeedbackVerdict)
                          ELSE BasicScoringVerdict
       IN  /\ verdict' = verdictText
           /\ scores' = Append(scores, score)
           /\ totalScore' = totalScore + score
    /\ gameState' = IF PostResolves(reply) THEN "results" ELSE gameState
    /\ UNCHANGED << started, lessonType, currentRound, prompt, customPrompt, argument,
                    timeLeft, isGenerating, genCalls, session, submits, generated >>

\* handleSubmitArgument from the await on, with setScores([finalScore]) in
\* place of setScores(prev => [...prev, finalScore]).
handleSubmitArgumentSettledKeepsLatest(call, reply) ==
    /\ BagIn(call, judgeCalls)
    /\ PostResolves(reply) \/ PostThrows(reply)
    /\ judgeCalls' = judgeCalls (-) SetToBag({call})
    /\ LET score == IF PostResolves(reply)
                    THEN (IF reply.hasScore THEN reply.score ELSE Num(75))
                    ELSE basicScore(call.argument)
           verdictText == IF PostResolves(reply)
                          THEN (IF reply.hasVerdict THEN reply.verdict ELSE NoFeedbackVerdict)
                          ELSE BasicScoringVerdict
       IN  /\ verdict' = verdictText
           /\ scores' = << score >>
           /\ totalScore' = totalScore + score
    /\ gameState' = "results"
    /\ UNCHANGED << started, lessonType, currentRound, prompt, customPrompt, argument,
                    timeLeft, isGenerating, genCalls, session, submits, generated >>

\* handleSubmitArgument from the await on: the try block's tail or the catch block.
handleSubmitArgumentSettled(call, reply) ==
    /\ BagIn(call, judgeCalls)
    /\ PostResolves(reply) \/ PostThrows(reply)
    /\ judgeCalls' = judgeCalls (-) SetToBag({call})
    /\ LET score == IF PostResolves(reply)
                    THEN (IF reply.hasScore THEN reply.score ELSE Num(75))
                    ELSE basicScore(call.argument)
           verdictText == IF PostResolves(reply)
                          THEN (IF reply.hasVerdict THEN reply.verdict ELSE NoFeedbackVerdict)
                          ELSE BasicScoringVerdict
       IN  /\ verdict' = verdictText
           /\ scores' = Append(scores, score)
           /\ totalScore' = totalScore + score
    /\ gameState' = "results"
    /\ UNCHANGED << started, lessonType, currentRound, prompt, customPrompt, argument,
                    timeLeft, isGenerating, genCalls, session, submits, generated >>

\* judgeArgument(prompt, argument): the JSON body of the POST.
judgeArgument(p, a) == JudgeRequest(TRUE, p, TRUE, a)

\* The prompts and arguments a judge request of the client can carry.
PromptTexts ==
    CustomTexts \cup { Trim(o.prompt) : o \in GenerateOutcomes }
        \cup { FALLBACK_CASES[m][r] : m \in {"rapid", "normal"}, r \in Rounds }

SubmittedTexts == { submittedArgument(a) : a \in ArgumentTexts }

\* The replies a judge request can get: what a deployed version of the server
\* sends for it under some behaviour of the capability, or a network failure.
JudgeRepliesTable ==
    [p \in PromptTexts, a \in SubmittedTexts |->
        UNION { Delivered(judgeArgumentHandler(v, judgeArgument(p, a), cap)) :
                    v \in DeployedVersions, cap \in JudgeCapabilities }
            \cup { NetworkFailure }]

JudgeReplies(call) == JudgeRepliesTable[call.prompt, call.argument]

\* Next Case / See Final Results, with the comparison off by one.
nextRoundEndsEarly ==
    /\ started /\ gameState = "results"
    /\ IF currentRound < TotalRounds - 1
       THEN /\ currentRound' = currentRound + 1
            /\ gameState' = "input"
            /\ customPrompt' = ""
            /\ prompt' = ""
            /\ argument' = ""
       ELSE /\ gameState' = "end"
            /\ UNCHANGED << currentRound, customPrompt, prompt, argument >>
    /\ UNCHANGED << started, lessonType, timeLeft, isGenerating, verdict, scores,
                    totalScore, genCalls, judgeCalls, session, submits, generated >>

\* Next Case / See Final Results.
nextRound ==
    /\ started /\ gameState = "results"
    /\ IF currentRound < TotalRounds
       THEN /\ currentRound' = currentRound + 1
            /\ gameState' = "input"
            /\ customPrompt' = ""
            /\ prompt' = ""
            /\ argument' = ""
       ELSE /\ gameState' = "end"
            /\ UNCHANGED << currentRound, customPrompt, prompt, argument >>
    /\ UNCHANGED << started, lessonType, timeLeft, isGenerating, verdict, scores,
                    totalScore, genCalls, judgeCalls, session, submits, generated >>

\* New Trial, with setTotalScore(0) left out.
restartGameKeepsTotal ==
    /\ started /\ gameState = "end"
    /\ session < MaxRestarts
    /\ started' = FALSE
    /\ gameState' = "input"
    /\ currentRound' = 1
    /\ prompt' = ""
    /\ customPrompt' = ""
    /\ argument' = ""
    /\ timeLeft' = InitialTimeLeft
    /\ verdict' = ""
    /\ scores' = << >>
    /\ session' = session + 1
    /\ submits' = [r \in Rounds |-> 0]
    /\ UNCHANGED << lessonType, isGenerating, genCalls, judgeCalls, generated, totalScore >>

\* New Trial, with setVerdict('') left out.
restartGameKeepsVerdict ==
    /\ started /\ gameState = "end"
    /\ session < MaxRestarts
    /\ started' = FALSE
    /\ gameState' = "input"
    /\ currentRound' = 1
    /\ prompt' = ""
    /\ customPrompt' = ""
    /\ argument' = ""
    /\ timeLeft' = InitialTimeLeft
    /\ scores' = << >>
    /\ totalScore' = 0
    /\ session' = session + 1
    /\ submits' = [r \in Rounds |-> 0]
    /\ UNCHANGED << lessonType, isGenerating, genCalls, judgeCalls, generated, verdict >>

\* New Trial.
restartGame ==
    /\ started /\ gameState = "end"
    /\ session < MaxRestarts
    /\ started' = FALSE
    /\ gameState' = "input"
    /\ currentRound' = 1
    /\ prompt' = ""
    /\ customPrompt' = ""
    /\ argument' = ""
    /\ timeLeft' = InitialTimeLeft
    /\ verdict' = ""
    /\ scores' = << >>
    /\ totalScore' = 0
    /\ session' = session + 1
    /\ submits' = [r \in Rounds |-> 0]
    /\ UNCHANGED << lessonType, isGenerating, genCalls, judgeCalls, generated >>

\* The divisor of the final score on the end screen.
AverageDivisor == 3

\* Math.round(x / d) of a number x >= 0 held in fifths: floor(x / d + 1/2).
MathRoundOfQuotient(x, d) == (2 * x + Scale * d) \div (2 * Scale * d)

\* The end screen: {Math.round(totalScore / 3)}/100.
finalScore == MathRoundOfQuotient(totalScore, AverageDivisor)

\* The countdown is running and the clock is outside the event window.
NearEdge(t) == t <= EventWindow \/ NearStart(t)

Quiet == gameState = "playing" /\ ~NearEdge(timeLeft)

(***************************************************************************)
(* The events of the client: a click, a keystroke, a timer, a settled      *)
(* call.  Each runs one handler to its next await.                         *)
(***************************************************************************)
ClickStart ==
    /\ ~Quiet
    /\ \E mode \in {"normal", "rapid"} : startLesson(mode)
    /\ Render /\ UNCHANGED endpointVars

TypeScenario ==
    /\ ~Quiet
    /\ \E text \in CustomTexts : setCustomPrompt(text)
    /\ Render /\ UNCHANGED endpointVars

ClickUseMyCase == ~Quiet /\ useCustomPrompt /\ Render /\ UNCHANGED endpointVars

ClickGenerate == ~Quiet /\ generateAIPrompt /\ Render /\ UNCHANGED endpointVars

GenerateSettles ==
    /\ ~Quiet
    /\ \E call \in BagToSet(genCalls) : \E outcome \in GenerateOutcomes :
           generateAIPromptSettled(call, outcome)
    /\ Render /\ UNCHANGED endpointVars

TypeArgument ==
    /\ ~Quiet
    /\ \E text \in ArgumentTexts : setArgument(text)
    /\ Render /\ UNCHANGED endpointVars

ClickSubmit == ~Quiet /\ submitDefense /\ Render /\ UNCHANGED endpointVars

Tick == tick /\ Render /\ UNCHANGED endpointVars

TimeExpired == timeExpired /\ Render /\ UNCHANGED endpointVars

JudgeSettles ==
    /\ ~Quiet
    /\ \E call \in BagToSet(judgeCalls) : \E reply \in JudgeReplies(call) :
           handleSubmitArgumentSettled(call, reply)
    /\ Render /\ UNCHANGED endpointVars

ClickNext == ~Quiet /\ nextRound /\ Render /\ UNCHANGED endpointVars

ClickRestart == ~Quiet /\ restartGame /\ Render /\ UNCHANGED endpointVars

Next ==
    \/ ClickStart
    \/ TypeScenario
    \/ ClickUseMyCase
    \/ ClickGenerate
    \/ GenerateSettles
    \/ TypeArgument
    \/ ClickSubmit
    \/ Tick
    \/ TimeExpired
    \/ JudgeSettles
    \/ ClickNext
    \/ ClickRestart

Spec == Init /\ [][Next]_vars

(***************************************************************************)
(* One session played without letting a countdown run down, with           *)
(* generateAIPrompt invoked up to MaxSessionGenerations times: a request    *)
(* left pending in one round can still be pending in the next.             *)
(***************************************************************************)
ClickGenerateAgain ==
    ~Quiet /\ generateAIPromptUpTo(MaxSessionGenerations) /\ Render /\ UNCHANGED endpointVars

GenerationNext ==
    \/ ClickStart
    \/ TypeScenario
    \/ ClickUseMyCase
    \/ ClickGenerateAgain
    \/ GenerateSettles
    \/ TypeArgument
    \/ ClickSubmit
    \/ JudgeSettles
    \/ ClickNext

GenerationSpec == Init /\ [][GenerationNext]_vars

(***************************************************************************)
(* The server alone: one request to POST /api/judge-argument, served by    *)
(* one version of the handler under one behaviour of the capability.       *)
(***************************************************************************)
\* Reply texts that carry a score line: text, marker, whitespace, numeral,
\* text.  No `pre` holds a marker and no `suffix` opens with a digit, so the
\* numeral after the first marker of the text is `digits`.
MarkerSpellings == { "SCORE:", "score:", "Score:" }

Gaps == { "", " ", " \n\t " }

NumeralValue == [d \in { "0", "7", "85", "100", "150" } |->
                    CASE d = "0" -> 0 [] d = "7" -> 7 [] d = "85" -> 85
                      [] d = "100" -> 100 [] d = "150" -> 150]

ScoredSamples ==
    [pre : { "", "The score follows. " }, marker : MarkerSpellings, gap : Gaps,
     digits : DOMAIN NumeralValue,
     suffix : { "", "\nVERDICT: Sustained.", "/100 overall" }]

\* Reply texts without a score line: nothing, blanks, prose, an n/100 grade,
\* a feedback section.
UnscoredSamples ==
    { [NoSample EXCEPT !.pre = t] : t \in { "", "  ", "Overruled.", "I rate this 85/100.",
                                             "Feedback:  Cite the lease. " } }

SampleText(s) == s.pre \o s.marker \o s.gap \o s.digits \o s.suffix

\* The arguments of the requests: short ones, ones that hold the words the
\* heuristic looks for, and ones around its length thresholds (300, 500).
Padding == "The landlord gave no notice. "

\* An argument with one keyword of each kind the heuristic looks for:
\* evidence (example, research), empathy (harm, vulnerable), counter-argument
\* (however, critics) and structure (first).
KeywordArgument ==
    "For example, research shows that this harms vulnerable communities; "
        \o "however critics argue otherwise. First, ..."

SampleArguments ==
    { "I object.", KeywordArgument, "Judge Gemini, I object.",
      "The tenant paid on time.", "Research and data support the tenant.",
      "For example, one study found evidence of harm.",
      "First, the eviction would harm and affect a family; however, the data is clear.",
      Repeat("a", 300), Repeat("a", 301), Repeat("a", 500), Repeat("a", 501),
      "Finally, for example, the evidence shows the harm and its impact; although "
          \o Repeat(Padding, 18) }

SamplePrompt == "Your client faces eviction."

Requests ==
    { JudgeRequest(FALSE, "", TRUE, "I object."),
      JudgeRequest(TRUE, "", TRUE, "I object."),
      JudgeRequest(TRUE, SamplePrompt, FALSE, ""),
      JudgeRequest(TRUE, SamplePrompt, TRUE, "") }
        \cup { JudgeRequest(TRUE, SamplePrompt, TRUE, a) : a \in SampleArguments }

RetryOutcomes ==
    { Throws, Returns(""), Returns(" \n"), Returns("SCORE: 64\nVERDICT: Overruled.") }

EndpointInit ==
    /\ ClientInit
    /\ version = "none"
    /\ response = NoResponse
    /\ grade = NoGrade
    /\ parsed = NoParse
    /\ modelCalls = 0
    /\ sentPrompts = << >>
    /\ gateway = NoGateway
    /\ \/ /\ request \in Requests
          /\ sample \in UnscoredSamples
          /\ \E c \in BOOLEAN, r \in RetryOutcomes :
                 capability \in { Capability(c, Throws, r),
                                  Capability(c, Returns(SampleText(sample)), r) }
       \/ /\ request = JudgeRequest(TRUE, SamplePrompt, TRUE, "I object.")
          /\ sample \in ScoredSamples
          /\ capability = Capability(TRUE, Returns(SampleText(sample)), Throws)

\* The heuristic of the catch block applied to each argument a request can
\* carry: the four components, their sum and the verdict text built on them.
HeuristicGrades ==
    [a \in { r.argument : r \in Requests } |->
        [done |-> TRUE,
         reasoning |-> reasoningScore(a),
         evidence |-> evidenceScore(a),
         empathy |-> empathyScore(a),
         rhetoric |-> rhetoricsScore(a),
         score |-> fallbackScore(a),
         verdict |-> detailedFallback(a)]]

\* A version of the handler serves the request.
Serve ==
    /\ version = "none"
    /\ \E v \in ServerVersions :
           /\ version' = v
           /\ response' \in Delivered(judgeArgumentHandler(v, request, capability))
           /\ modelCalls' = generateContentCalls(v, request, capability)
           /\ sentPrompts' = IF v = "server.js"
                             THEN judgeArgumentWithRetryPrompts(request, capability)
                             ELSE << >>
           /\ gateway' = gatewayResult(v, request, capability)
    /\ UNCHANGED << request, sample, capability, grade, parsed, clientVars >>

\* The statements of the detailed heuristic (src/unnamed/part_002, lines
\* 202-229) applied to the argument of the request.
GradeHeuristically ==
    /\ version = "none"
    /\ request.hasArgument
    /\ version' = "heuristic"
    /\ grade' = HeuristicGrades[request.argument]
    /\ UNCHANGED << request, sample, capability, response, parsed, modelCalls,
                    sentPrompts, gateway, clientVars >>

\* parseVerdict (src/unnamed/part_004) applied to the text of the reply.
ParseVerdict ==
    /\ version = "none"
    /\ ~capability.first.throws
    /\ version' = "parseVerdict"
    /\ parsed' = [done |-> TRUE] @@ parseVerdict(capability.first.text)
    /\ UNCHANGED << request, sample, capability, response, grade, modelCalls,
                    sentPrompts, gateway, clientVars >>

EndpointNext ==
    \/ Serve
    \/ GradeHeuristically
    \/ ParseVerdict

EndpointSpec == EndpointInit /\ [][EndpointNext]_vars

\* The 1 s timeout of the countdown effect fires under the argument text of
\* the render that armed it.  The effect depends on handleSubmitArgument, a
\* useCallback over [argument, prompt]: a render with another argument text
\* runs the effect's cleanup (clearTimeout) and arms a new timeout.
TickUnder(text) == Tick /\ argument = text

\* The client with its scheduling: a timeout that stays armed fires, the
\* countdown effect runs, and a judge call that is outstanding settles.
FairSpec ==
    /\ Spec
    /\ \A text \in ArgumentTexts : WF_vars(TickUnder(text))
    /\ WF_vars(TimeExpired)
    /\ WF_vars(JudgeSettles)

(***************************************************************************)
(* Properties of the round machine.                                        *)
(***************************************************************************)
\* C1: within one round of a session handleSubmitArgument runs at most once
\* (the manual submit and the timer-expiry submit together), so the round
\* enters 'judging' at most once.
C1_SubmitAtMostOncePerRound == \A r \in Rounds : submits[r] <= 1

\* Calls of one kind that are outstanding for round r of session s.
Outstanding(calls, s, r) ==
    LET same == { c \in BagToSet(calls) : c.session = s /\ c.round = r }
    IN  BagCardinality([c \in same |-> CopiesIn(c, calls)])

\* C2: for every round there is at most one scenario-generation call and at
\* most one grading call outstanding at any time.
C2_OneCallOutstandingPerRound ==
    \A s \in 0..session : \A r \in Rounds :
        /\ Outstanding(genCalls, s, r) <= 1
        /\ Outstanding(judgeCalls, s, r) <= 1

\* C3: a generation or judge call that was issued before restartGame and
\* completes after it is discarded: its completion changes none of the phase,
\* the scenario, the timer, the argument, the scores and the total.
C3_LateCompletionDiscarded ==
    [][ ( \/ \E c \in BagToSet(genCalls) :
                 c.session < session /\ genCalls' = genCalls (-) SetToBag({c})
          \/ \E c \in BagToSet(judgeCalls) :
                 c.session < session /\ judgeCalls' = judgeCalls (-) SetToBag({c}) )
        => UNCHANGED << gameState, prompt, timeLeft, argument, scores, totalScore >> ]_vars

\* C4: from 'judging' the round reaches 'results' with a score recorded,
\* whatever the judge call's outcome (a 2xx reply, another status, a network
\* failure), provided the call settles.
C4_JudgingReachesResults ==
    (gameState = "judging") ~> (gameState = "results" /\ Len(scores) > 0)

\* C4, witness: a round graded by the catch block after a failed call.
C4_ResultsAfterFailedCall ==
    /\ gameState = "results"
    /\ verdict = BasicScoringVerdict
    /\ Len(scores) > 0

\* C8: every score recorded for a round is an integer from 0 to 100.
C8_RecordedScoresAreWholePercentages ==
    \A i \in 1..Len(scores) :
        IsInteger(scores[i]) /\ scores[i] >= 0 /\ scores[i] <= Num(100)

\* C9: when the text shown as the verdict carries a score line with a number
\* above 100 (SCORE: 150), the score recorded for that round is 100.
C9_OverflowingScoreClamped ==
    ( /\ gameState = "results"
      /\ scoreMatch(verdict) # ""
      /\ parseInt(scoreMatch(verdict)) > 100 )
        => scores[Len(scores)] = Num(100)

(***************************************************************************)
(* Properties of the judge endpoint and of the score parsers.              *)
(***************************************************************************)
\* C5: a request to POST /api/judge-argument that carries a prompt and an
\* argument is always answered, and the answer has a verdict and a score at
\* the top level of its body, whatever the capability did.
C5_JudgeAnswersWithVerdictAndScore ==
    (version \in ServerVersions /\ ~MissingInput(request))
        => (response.answered /\ response.hasVerdict /\ response.hasScore)

\* The generation of the judgement failed, so the handler of the detailed
\* server (part_002) or of the third api server is in its catch block.
InHeuristicFallback ==
    \/ version = "part_002" /\ ~MissingInput(request) /\ ~safeGenerate(capability).ok
    \/ version = "api/server.js#3" /\ ~generate(capability).ok

\* C6: the fallback path of the judge handler never fails: once the
\* generation has failed, it completes and answers with a score and a verdict.
C6_FallbackNeverFails ==
    InHeuristicFallback
        => (response.answered /\ response.hasScore /\ response.hasVerdict)

\* C7: the heuristic fallback score lies in 40..100, it is the sum of its four
\* components, and each component lies in 10..25.
C7_HeuristicScoreInRange ==
    grade.done =>
        /\ grade.reasoning \in 10..25
        /\ grade.evidence \in 10..25
        /\ grade.empathy \in 10..25
        /\ grade.rhetoric \in 10..25
        /\ grade.score = grade.reasoning + grade.evidence + grade.empathy + grade.rhetoric
        /\ grade.score \in 40..100

\* C7, witness: an argument that earns every bonus is graded 100.
C7_FullMarks == grade.done /\ grade.score = 100

\* The reply text holds a well-formed score line: a marker in any spelling,
\* any white space, and a numeral N with 0 <= N <= 100.
WellFormedScoreLine ==
    sample.marker # "" /\ NumeralValue[sample.digits] \in 0..100

\* C10: for a text with a well-formed line 'SCORE: N' (0 <= N <= 100, the
\* marker in any case, any white space before N) the parsers extract exactly
\* N: the score of the endpoint's answer is N and parseVerdict's score is N.
C10_WellFormedScoreExtracted ==
    WellFormedScoreLine =>
        /\ (version \in ServerVersions /\ response.hasScore)
               => response.score = Num(NumeralValue[sample.digits])
        /\ parsed.done => parsed.score = Num(NumeralValue[sample.digits])

\* C10, witness: "score:" in lower case, blanks and a line break, then 85.
C10_LowerCaseMarkerRead ==
    /\ sample.marker = "score:" /\ sample.gap = " \n\t " /\ sample.digits = "85"
    /\ version = "part_002"
    /\ response.hasScore /\ response.score = Num(85)

\* The capability returned a text that is not blank and holds no score
\* marker, and the handler that served the request parsed it.
UnmarkedReplyParsed ==
    /\ sample.marker = "" /\ Trim(SampleText(sample)) # ""
    /\ capability.first = Returns(SampleText(sample))
    /\ \/ version \in { "part_002", "server.js" } /\ ~MissingInput(request)
       \/ version = "part_001" /\ ~MissingInput(request) /\ capability.configured
       \/ version \in { "api/server.js#1", "api/server.js#3" } /\ capability.configured

\* C11: for every non-empty grading text without a SCORE: marker the parse
\* does not fail: the full text is the verdict and the score is the default
\* 75, in the answer of the endpoint and in parseVerdict's result.
C11_UnmarkedTextScoresDefault ==
    /\ UnmarkedReplyParsed =>
           /\ response.answered /\ response.hasVerdict /\ response.hasScore
           /\ response.verdict = Trim(SampleText(sample))
           /\ response.score = Num(75)
    /\ (parsed.done /\ sample.marker = "" /\ SampleText(sample) # "") =>
           /\ parsed.message = SampleText(sample)
           /\ parsed.score = Num(75)

\* C13: a round that was submitted by the timer with an empty argument (the
\* request carries the placeholder) and whose grading call failed is graded
\* by the heuristic with every component at its base value: the score
\* recorded for the round is 40 and the feedback shown is not empty.
C13_EmptyAutoSubmitGradedForty ==
    [][ \A call \in BagToSet(judgeCalls) :
            ( /\ call.argument = NoArgumentPlaceholder
              /\ judgeCalls' = judgeCalls (-) SetToBag({call})
              /\ verdict' = BasicScoringVerdict )
                => (scores' = Append(scores, Num(40)) /\ verdict' # "") ]_vars

\* C14: for the argument "For example, research shows that this harms
\* vulnerable communities; however critics argue otherwise. First, ...",
\* which holds evidence, empathy, counter-argument and structure keywords,
\* the heuristic fallback grader returns the score 100: as the score of the
\* heuristic's statements and as the score of the answer of the handler
\* whose generation failed.
C14_KeywordArgumentScoresHundred ==
    /\ (grade.done /\ request.argument = KeywordArgument) => grade.score = 100
    /\ (InHeuristicFallback /\ version = "part_002" /\ request.argument = KeywordArgument)
           => (response.hasScore /\ response.score = Num(100))

(***************************************************************************)
(* Properties of generateWithRetry, seen through the judge handler of      *)
(* src/server.js.                                                          *)
(***************************************************************************)
\* The first call of generateWithRetry returned empty or blank text.
FirstCallEmpty ==
    /\ version = "server.js" /\ ~MissingInput(request)
    /\ ~capability.first.throws /\ Trim(capability.first.text) = ""

\* The retry returned text that is not blank.
RetryGaveText == ~capability.retry.throws /\ Trim(capability.retry.text) # ""

\* C15: when the first generation call returns empty text, exactly one retry
\* is made, its prompt is the softened variant of the original prompt (no
\* role-play phrase is left in it), and text the retry returns is accepted
\* and answered as the result, without any fallback.
C15_EmptyFirstCallRetriedSoftened ==
    FirstCallEmpty =>
        /\ Len(sentPrompts) = 2
        /\ sentPrompts[1] = judgeInstruction(request.prompt, request.argument)
        /\ sentPrompts[2] = softened(sentPrompts[1])
        /\ ~RegexTest(RolePlayPattern, sentPrompts[2])
        /\ RetryGaveText =>
               /\ response.answered /\ response.status = 200
               /\ response.hasVerdict /\ response.verdict = Trim(capability.retry.text)
               /\ ~response.hasFallback /\ ~response.usingFallback

\* C15, witness: the argument names Judge Gemini, the first call is empty, and
\* the retry, sent under a prompt that differs from the first, is answered.
C15_RetryTextAnswered ==
    /\ FirstCallEmpty /\ RetryGaveText
    /\ Len(sentPrompts) = 2 /\ sentPrompts[2] # sentPrompts[1]
    /\ response.status = 200 /\ response.verdict = "SCORE: 64\nVERDICT: Overruled."

\* C16: one request makes at most two calls of generateContent, and the
\* second only when the first returned empty text: a first call that throws
\* is not retried, and a server without a credential makes no call.
C16_SecondCallOnlyAfterEmptyFirst ==
    version \in ServerVersions =>
        /\ modelCalls <= 2
        /\ version = "server.js" => modelCalls = Len(sentPrompts)
        /\ modelCalls = 2 => (~capability.first.throws /\ Trim(capability.first.text) = "")
        /\ capability.first.throws => modelCalls <= 1
        /\ (~capability.configured
              /\ version \in { "part_001", "api/server.js#1", "api/server.js#3" })
               => modelCalls = 0

\* C16, witness: the first call of generateWithRetry threw; it was the only
\* call, and the handler answered from its catch block.
C16_ThrownFirstCallNotRetried ==
    /\ version = "server.js" /\ ~MissingInput(request)
    /\ capability.first.throws
    /\ modelCalls = 1 /\ Len(sentPrompts) = 1
    /\ response.status = 500 /\ response.hasFallback

\* C17: a request to POST /api/judge-argument whose prompt or argument is
\* missing or empty is answered with status 400 and nothing is graded: no
\* call of the capability is made and no fallback score is computed.
C17_MissingInputRejected ==
    (version \in ServerVersions /\ MissingInput(request)) =>
        /\ response.answered /\ response.status = 400
        /\ modelCalls = 0
        /\ ~response.hasScore /\ ~response.hasFallback

(***************************************************************************)
(* Properties of the session's score, phases and scenarios.                *)
(***************************************************************************)
RECURSIVE Sum(_)
Sum(seq) == IF seq = << >> THEN 0 ELSE seq[1] + Sum(Tail(seq))

\* C18: in every reachable state totalScore is the sum of the scores recorded
\* for the rounds; on the end screen the average shown is totalScore / 3
\* rounded to the nearest whole number; and for the round scores 80, 60 and
\* 100 totalScore is 240 and the average shown is 80.
C18_TotalIsSumAndAverageRounded ==
    /\ totalScore = Sum(scores)
    /\ gameState = "end" =>
           LET distance == AverageDivisor * Scale * finalScore - totalScore
           IN  /\ 2 * distance <= AverageDivisor * Scale
               /\ 2 * distance > -(AverageDivisor * Scale)
    /\ scores = << Num(80), Num(60), Num(100) >> =>
           (totalScore = Num(240) /\ finalScore = 80)

\* C18, witness: a session whose three rounds were graded 80, 60 and 100 is
\* on the end screen with 80 as its final score.
C18_SessionOfEightySixtyHundred ==
    /\ gameState = "end"
    /\ scores = << Num(80), Num(60), Num(100) >>
    /\ totalScore = Num(240) /\ finalScore = 80

\* The phase changes of a round: the scenario is set, the argument is
\* submitted, the grade arrives, the next round or the end screen follows,
\* and New Trial leaves the end screen.
PhaseChanges ==
    { << "input", "playing" >>, << "playing", "judging" >>, << "judging", "results" >>,
      << "results", "input" >>, << "results", "end" >>, << "end", "input" >> }

\* C19: the phase changes only along input -> playing -> judging -> results
\* -> (input | end) and, by restart, end -> input; no event, a late
\* completion of a call included, moves it from judging, results or end back
\* to playing, or from input straight to results.
C19_PhaseFollowsRoundOrder ==
    [][ gameState' # gameState => << gameState, gameState' >> \in PhaseChanges ]_vars

Modes == { "rapid", "normal" }

CatalogEntries == { FALLBACK_CASES[m][r] : m \in Modes, r \in Rounds }

\* C20: the fallback catalog holds exactly one non-empty entry for each mode
\* (rapid, normal) and each round 1..3, and whenever the generation of a
\* scenario fails, the scenario presented is the entry for the session's
\* mode and round at the moment it is presented.
C20_FallbackIsEntryOfCurrentModeAndRound ==
    [][ /\ DOMAIN FALLBACK_CASES = Modes
        /\ \A m \in Modes :
               /\ DOMAIN FALLBACK_CASES[m] = Rounds
               /\ \A r \in Rounds : FALLBACK_CASES[m][r] # ""
        /\ ( /\ \E call \in BagToSet(genCalls) : genCalls' = genCalls (-) SetToBag({call})
              /\ prompt' \in CatalogEntries )
                => prompt' = FALLBACK_CASES[lessonType'][currentRound'] ]_vars

(***************************************************************************)
(* Properties of the gateway functions and of the session record.          *)
(***************************************************************************)
\* C21: whenever the gateway function (generate of src/api/server.js,
\* safeGenerate of part_001 and part_002) returns normally, the text it
\* returns is trimmed and not empty, whatever the capability replied, text
\* made of white space only included.
C21_GatewayTextTrimmedAndNonEmpty ==
    ( /\ version \in { "part_002", "part_001", "api/server.js#1", "api/server.js#3" }
      /\ gateway.called /\ gateway.ok )
        => (gateway.text # "" /\ Trim(gateway.text) = gateway.text)

\* The messages of the Errors the servers and post() throw.
RawErrorTexts ==
    { "NO_API_KEY", "EMPTY_RESPONSE", "EMPTY_OR_BLOCKED_RESPONSE", "GEMINI_NOT_CONFIGURED",
      "TransportError", "Request failed", "Missing input", "Missing prompt or argument",
      "Failed to judge argument" }

\* C22: the verdict text recorded and shown for a completed round is not
\* empty and is never the raw text of an error, whatever the judge endpoint
\* answered (a 2xx answer whose verdict is the empty string included).
C22_RecordedVerdictNonEmpty ==
    (gameState = "results" /\ Len(scores) > 0) =>
        (verdict # "" /\ verdict \notin RawErrorTexts)

\* The scenarios a successful generation can present.
GeneratedPrompts ==
    { Trim(o.prompt) : o \in { g \in GenerateOutcomes : g.ok /\ g.hasPrompt } } \ { "" }

\* A generation call settles with a failure: a response that is not 2xx, a
\* network error, or a 2xx body whose prompt is missing, empty or blank.
GenerationFails ==
    /\ \E call \in BagToSet(genCalls) : genCalls' = genCalls (-) SetToBag({call})
    /\ prompt' \notin GeneratedPrompts

\* C23: on every failure of the scenario generation the client enters
\* 'playing' with a non-empty fallback scenario and the countdown of the
\* session's mode, and isGenerating is cleared: it does not stay in 'input'.
C23_FailedGenerationStartsRound ==
    [][ GenerationFails =>
            /\ gameState' = "playing"
            /\ prompt' \in CatalogEntries /\ prompt' # ""
            /\ timeLeft' = timerDuration(lessonType')
            /\ ~isGenerating' ]_vars

\* C24: while the phase is 'playing' the remaining time goes down second by
\* second whatever else happens, edits of the argument text included, so a
\* round in which the user does not submit reaches zero and leaves 'playing'
\* for 'judging'.
C24_CountdownRunsOut ==
    (gameState = "playing" /\ session = 0 /\ currentRound <= RunOutRounds)
        ~> (gameState # "playing")

\* The countdown stands at zero in 'playing' and the argument is submitted.
SubmittedAtZero == gameState = "playing" /\ timeLeft = 0 /\ gameState' = "judging"

C26_CountdownStartsAtModeDuration ==
    [][ (gameState # "playing" /\ gameState' = "playing") =>
            timeLeft' = (IF lessonType' = "rapid" THEN 120 ELSE 240) ]_vars

\* C27: advancing from 'results' leads to 'input' with the round number
\* raised by exactly one when the round number is below 3, and to 'end'
\* when it is 3; within a session the round number never goes down, and it
\* never exceeds 3.
C27_AdvanceRaisesRoundByOne ==
    [][ /\ (gameState = "results" /\ gameState' \in { "input", "end" }) =>
               IF currentRound < 3
               THEN gameState' = "input" /\ currentRound' = currentRound + 1
               ELSE gameState' = "end" /\ currentRound' = currentRound
        /\ session' = session => currentRound' >= currentRound
        /\ currentRound' \in 1..3 ]_vars

\* C27, witness: the first session advanced twice and then to the end screen.
C27_AdvancedToEnd ==
    gameState = "end" /\ currentRound = 3 /\ session = 0 /\ Len(scores) >= 3

\* C28: exactly one result is recorded per round: the number of recorded
\* scores is currentRound - 1 while the phase is input, playing or judging,
\* and currentRound while it is results or end (three on the end screen).
C28_OneScorePerRound ==
    Len(scores) = IF gameState \in { "input", "playing", "judging" }
                  THEN currentRound - 1
                  ELSE currentRound

\* C29: the score history is append-only: a step leaves the list as it is or
\* adds exactly one score at its end, keeping every earlier entry in place;
\* only New Trial, the step that opens the next session, empties it.
C29_ScoresAppendOnly ==
    [][ \/ scores' = scores
        \/ /\ Len(scores') = Len(scores) + 1
           /\ SubSeq(scores', 1, Len(scores)) = scores
        \/ /\ session' = session + 1
           /\ gameState = "end"
           /\ scores' = << >> ]_vars

\* A second, different score stands behind the first one.
C29_SecondScoreBehindFirst ==
    /\ Len(scores) = 2 /\ scores[1] # scores[2]
    /\ gameState = "results" /\ currentRound = 2

\* C30: the end screen is terminal: from phase 'end' on, every step other than
\* New Trial (timer ticks and call completions included) leaves the phase, the
\* scores, the total and the round number as they are.
C30_EndIsTerminal ==
    [][ (gameState = "end" /\ session' = session)
            => UNCHANGED << gameState, scores, totalScore, currentRound >> ]_vars

\* C31: New Trial leaves the session's cells at their initial values: phase
\* input, round 1, empty scenario, empty custom scenario, empty argument,
\* timeLeft 240, empty verdict, no scores, totalScore 0, not started.
C31_RestartYieldsInitialCells ==
    [][ session' = session + 1 =>
            /\ gameState' = "input" /\ currentRound' = 1
            /\ prompt' = "" /\ customPrompt' = "" /\ argument' = ""
            /\ timeLeft' = 240 /\ verdict' = ""
            /\ scores' = << >> /\ totalScore' = 0
            /\ ~started' ]_vars

\* The start screen of the second session, reached by New Trial after a
\* session that recorded a verdict.
C31_RestartedOntoStartScreen ==
    session = 1 /\ ~started /\ gameState = "input" /\ verdict = ""

\* C32: the scenario of a round is immutable: from the step that enters
\* 'playing' until Next or New Trial ends the round, no step changes the
\* scenario text; and while the phase stays 'playing' the countdown only
\* stands or drops by one and the argument changes only by a keystroke,
\* which leaves the countdown alone.
C32_ScenarioFixedWhileRoundRuns ==
    [][ /\ ( /\ gameState \in { "playing", "judging", "results" }
             /\ gameState' \in { "playing", "judging", "results" } )
            => prompt' = prompt
        /\ (gameState = "playing" /\ gameState' = "playing")
            => /\ timeLeft' \in { timeLeft, timeLeft - 1 }
               /\ argument' # argument => timeLeft' = timeLeft ]_vars

\* C33: the judge request of a submission, by the button or by the countdown,
\* carries the scenario and the argument text as the cells hold them at that
\* moment (the placeholder standing in for a blank argument), never what an
\* earlier render held.
C33_RequestBuiltFromCurrentCells ==
    [][ (gameState = "playing" /\ gameState' = "judging") =>
            judgeCalls' = judgeCalls (+)
                SetToBag({[prompt |-> prompt,
                           argument |-> submittedArgument(argument),
                           round |-> currentRound,
                           session |-> session]}) ]_vars

\* A request of round 2 is in flight with the text typed in that round.
C33_TypedTextOfRoundTwoInFlight ==
    /\ gameState = "judging" /\ currentRound = 2 /\ prompt # ""
    /\ \E call \in BagToSet(judgeCalls) :
           /\ call.round = 2 /\ call.session = session
           /\ call.argument = "I object." /\ call.prompt = prompt

\* A failure response that carries a fallback pair: status 500 with the pair
\* nested under `fallback`, or status 200 with usingFallback: true and the
\* pair at the top level.
CarriesFallback(reply) ==
    /\ reply.answered
    /\ \/ reply.status = 500 /\ reply.hasFallback
       \/ reply.status = 200 /\ reply.usingFallback /\ reply.hasVerdict /\ reply.hasScore

\* C34: when the judge request of a round is answered by a failure response
\* carrying a fallback pair, as a 500 or as a 200 with usingFallback: true,
\* the verdict and the score recorded for the round are the carried ones.
C34_CarriedFallbackIsRecorded ==
    [][ \A call \in BagToSet(judgeCalls) : \A reply \in JudgeReplies(call) :
            (CarriesFallback(reply) /\ handleSubmitArgumentSettled(call, reply)) =>
                LET carried == IF reply.hasFallback THEN reply.fallback
                               ELSE [verdict |-> reply.verdict, score |-> reply.score]
                IN  /\ verdict' = carried.verdict
                    /\ scores' = Append(scores, carried.score) ]_vars

\* C35: the evidence component of the heuristic grade is 10, plus 10 when a
\* keyword of the evidentiary set occurs in the argument, plus 5 when two or
\* more occurrences of keywords of that set are found (one 'research' and
\* one 'data' give 25).
C35_EvidenceComponentCountsWholeSet ==
    grade.done =>
        grade.evidence =
            10 + (IF hasEvidence(request.argument) THEN 10 ELSE 0)
               + (IF MatchCount(EvidencePattern, request.argument) >= 2 THEN 5 ELSE 0)

\* C36: the reasoning component of the heuristic grade follows strict
\* thresholds on the argument's length in characters: 10 up to 300, 18 above
\* 300 and up to 500, 25 above 500.
C36_ReasoningComponentByLength ==
    grade.done =>
        grade.reasoning =
            IF Len(request.argument) <= 300 THEN 10
            ELSE IF Len(request.argument) <= 500 THEN 18
            ELSE 25

\* An argument of exactly 500 characters graded 18 for reasoning.
C36_FiveHundredCharactersGradedEighteen ==
    grade.done /\ Len(request.argument) = 500 /\ grade.reasoning = 18

\* C37: every judge request the client issues carries a non-empty prompt and
\* a non-empty argument (the placeholder stands in for a blank or timed-out
\* one), so no server version answers it with the 400 of a missing input.
C37_ClientRequestsCarryBothInputs ==
    \A call \in BagToSet(judgeCalls) :
        /\ call.prompt # "" /\ call.argument # ""
        /\ ~MissingInput(judgeArgument(call.prompt, call.argument))
        /\ \A reply \in JudgeReplies(call) : ~(reply.answered /\ reply.status = 400)

\* The countdown ran out on an empty field: the request in flight carries
\* the placeholder and the scenario of the round.
C37_PlaceholderRequestInFlight ==
    /\ gameState = "judging" /\ timeLeft = 0 /\ argument = ""
    /\ \E call \in BagToSet(judgeCalls) :
           call.argument = NoArgumentPlaceholder /\ call.prompt = prompt /\ prompt # ""

\* C38: isGenerating is true exactly while a request of generateAIPrompt is
\* pending: an invocation finds it false and sets it, the settling of the
\* request (success or failure) clears it, and no invocation happens while
\* it is true, so at most one request is pending.
C38_IsGeneratingWhileRequestPending ==
    [][ /\ isGenerating' <=> (BagCardinality(genCalls') > 0)
        /\ BagCardinality(genCalls') <= 1
        /\ generated' # generated => (~isGenerating /\ isGenerating')
        /\ BagCardinality(genCalls') < BagCardinality(genCalls) => ~isGenerating' ]_vars

\* The second request of the session is pending, in a later round than the
\* first one, which has settled.
C38_SecondRequestPending ==
    /\ generated = 2 /\ isGenerating /\ currentRound >= 2
    /\ BagToSet(genCalls) = { [round |-> currentRound, lessonType |-> lessonType,
                               session |-> session] }

\* C39: the heuristic fallback is self-consistent: for every argument the
\* score that /SCORE:\s*(\d+)/i extracts from the fallback verdict text is
\* the score computed alongside it.
C39_FallbackVerdictCarriesItsScore ==
    grade.done => extractScore(grade.verdict, 75) = Num(grade.score)

\* A fallback verdict whose numeral has three digits.
C39_HundredReadBackFromVerdict ==
    grade.done /\ grade.score = 100 /\ scoreMatch(grade.verdict) = "100"

\* C40: timeLeft stays within 0..240, and within 0..120 while the phase is
\* 'playing' in rapid mode; it changes only by dropping by one while the
\* phase is 'playing' and timeLeft > 0, by being set to the duration of the
\* mode on entry to 'playing', or by being set to 240 by New Trial.
C40_TimeLeftBoundedAndStepwise ==
    [][ /\ timeLeft' \in 0..240
        /\ (gameState' = "playing" /\ lessonType' = "rapid") => timeLeft' <= 120
        /\ timeLeft' # timeLeft =>
               \/ /\ gameState = "playing" /\ timeLeft > 0
                  /\ timeLeft' = timeLeft - 1
               \/ /\ gameState # "playing" /\ gameState' = "playing"
                  /\ timeLeft' = (IF lessonType' = "rapid" THEN 120 ELSE 240)
               \/ /\ session' = session + 1
                  /\ timeLeft' = 240 ]_vars

=============================================================================
